---------------------------- MODULE Spec2Model ----------------------------
(***************************************************************************)
(* A model of the secure-words passphrase generator and of its strength    *)
(* scorer.                                                                 *)
(*                                                                         *)
(*   - the generator hook  usePasswordGenerator  (getSecureRandom,         *)
(*     getFilteredWords, areSimilar, getRandomWords, insertRandomChar,     *)
(*     modifyRandomWords, processWords, generatePassword,                  *)
(*     updatePasswordWithOptions);                                         *)
(*   - the scorer  getPasswordComplexity  of lib/password-analysis.ts.     *)
(*                                                                         *)
(* A string is a sequence of characters and a character is a one-character *)
(* TLA+ string.  A precomposed accented letter is written as its base      *)
(* letter followed by an apostrophe ("e'"), and the combining mark that    *)
(* NFD splits off it is the apostrophe alone ("'").                        *)
(***************************************************************************)
EXTENDS Integers, Sequences, FiniteSets, TLC

VARIABLES
    \* ---- getSecureRandom, one call (SpecRandom)
    rngPc,          \* "idle" | "redraw" | "done"
    rngCrypto,      \* whether window.crypto.getRandomValues is available
    rngMax,         \* the argument max
    rngVal,         \* the last value read from the Uint32Array
    rngResult,      \* the value returned
    \* ---- the hook usePasswordGenerator
    options,        \* the hook's argument
    password,       \* useState("")
    isGenerating,   \* useState(false)
    pc,             \* position inside the running handler, "idle" between calls
    caller,         \* "none" | "generate" | "update" | "select": the running entry point
    opts,           \* the options the running call works with
    availableWords, \* getRandomWords: the filtered pool
    words,          \* getRandomWords: the words selected so far / the input of processWords
    attempts,       \* getRandomWords: the counter of the first loop
    processed,      \* processWords: the list being transformed
    indices,        \* modifyRandomWords: the Set of indices, in insertion order
    applied,        \* modifyRandomWords: how many indices forEach has visited
    before,         \* modifyRandomWords: the list the running pass started from
    chan,           \* processWords: the running pass, "numbers" | "specials" | "none"
    error,          \* the Error thrown in the last call, NoError when none
    drew,           \* whether the running/last call has called getSecureRandom
    selected,       \* whether the running/last call has called getRandomWords
    retval,         \* what the last generatePassword call returned
    \* ---- getPasswordComplexity (SpecScore)
    scPc,           \* "input" | "done" | "threw"
    scType,         \* typeof of the argument
    scPassword,     \* the argument when it is a string, "" otherwise
    scSteps,        \* the steps of the scorer that the call ran, in order
    scReport,       \* the PasswordComplexity returned
    meEntropy,      \* mapEntropyToScore: its argument, in millionths of a bit
    meScore,        \* mapEntropyToScore: the score returned, in millionths
    \* ---- the page's usePasswordHistory
    history         \* useState([]): the entries, newest first

rngVars == <<rngPc, rngCrypto, rngMax, rngVal, rngResult>>
callVars == <<pc, caller, opts, availableWords, words, attempts, processed,
              indices, applied, before, chan, error, drew, selected, retval>>
hookVars == <<options, password, isGenerating, callVars>>
scVars == <<scPc, scType, scPassword, scSteps, scReport, meEntropy, meScore>>
pageVars == <<history>>
vars == <<rngVars, hookVars, scVars, pageVars>>

---------------------------------------------------------------------------
(* Bounds of the model.                                                    *)

\* The random source yields DrawBits-bit unsigned values (the code: 32).
DrawBits == 5

---------------------------------------------------------------------------
(* Sequence helpers.                                                       *)

Max(a, b) == IF a >= b THEN a ELSE b
Min(a, b) == IF a <= b THEN a ELSE b
Abs(a) == IF a >= 0 THEN a ELSE 0 - a

RECURSIVE Pow2(_)
Pow2(n) == IF n = 0 THEN 1 ELSE 2 * Pow2(n - 1)

Range(s) == {s[i] : i \in DOMAIN s}

\* Array.prototype.includes
Includes(s, x) == \E i \in DOMAIN s : s[i] = x

\* The concatenation of a sequence of sequences.
RECURSIVE Flatten(_)
Flatten(ss) == IF ss = <<>> THEN <<>> ELSE Head(ss) \o Flatten(Tail(ss))

---------------------------------------------------------------------------
(* getSecureRandom.                                                        *)

\* const range = 2 ** 32
DrawRange == Pow2(DrawBits)

\* const limit = range - (range % max)
\* The mutant draws without rejection.
RandomLimit_NoReject(max) == DrawRange
RandomLimit(max) == DrawRange - (DrawRange % max)

\* The values getSecureRandom(max) can return: on the cryptographic path the
\* accepted draws reduced modulo max, on the fallback path
\* Math.floor(Math.random() * max) with Math.random() in [0, 1).
getSecureRandom(max) ==
    {v % max : v \in {d \in 0 .. DrawRange - 1 : d < RandomLimit(max)}}
        \cup (0 .. max - 1)

RngInit ==
    /\ rngPc = "idle"
    /\ rngCrypto = TRUE
    /\ rngMax = 1
    /\ rngVal = 0
    /\ rngResult = 0

\* One read of window.crypto.getRandomValues and the test of the do-while.
RngDrawn(max, v) ==
    /\ rngVal' = v
    /\ IF v >= RandomLimit(max)
         THEN /\ rngPc' = "redraw"
              /\ UNCHANGED rngResult
         ELSE /\ rngPc' = "done"
              /\ rngResult' = v % max

\* A call getSecureRandom(max) up to its first draw.
RngCall ==
    /\ rngPc = "idle"
    /\ \E max \in 1 .. DrawRange, crypto \in BOOLEAN :
         /\ rngMax' = max
         /\ rngCrypto' = crypto
         /\ IF crypto
              THEN \E v \in 0 .. DrawRange - 1 : RngDrawn(max, v)
              ELSE \* Math.floor(Math.random() * max)
                   /\ \E r \in 0 .. max - 1 : rngResult' = r
                   /\ rngPc' = "done"
                   /\ UNCHANGED rngVal
    /\ UNCHANGED <<hookVars, scVars, pageVars>>

\* The draw was rejected: the do-while goes round again.
RngRedraw ==
    /\ rngPc = "redraw"
    /\ \E v \in 0 .. DrawRange - 1 : RngDrawn(rngMax, v)
    /\ UNCHANGED <<rngCrypto, rngMax, hookVars, scVars, pageVars>>

\* return val % max: the call is over and its locals are gone.
RngReturn ==
    /\ rngPc = "done"
    /\ rngPc' = "idle"
    /\ rngMax' = 1
    /\ rngVal' = 0
    /\ rngResult' = 0
    /\ UNCHANGED <<rngCrypto, hookVars, scVars, pageVars>>

RngNext == RngCall \/ RngRedraw \/ RngReturn

---------------------------------------------------------------------------
(* Characters and strings.                                                 *)

LowerLetters == <<"a", "b", "c", "d", "e", "g", "l", "m", "o", "p", "t">>
UpperLetters == <<"A", "B", "C", "D", "E", "G", "L", "M", "O", "P", "T">>

\* Precomposed accented letters and the base letters NFD decomposes them to.
Precomposed == <<"a'", "e'", "o'", "E'">>
DecomposedBase == <<"a", "e", "o", "E">>
\* The combining marks, U+0300 to U+036F.
CombiningMarks == {"'"}

IndexOf(s, x) == CHOOSE i \in DOMAIN s : s[i] = x

\* String.prototype.toUpperCase / toLowerCase, on one character.
toUpperCase(c) ==
    IF Includes(LowerLetters, c) THEN UpperLetters[IndexOf(LowerLetters, c)] ELSE c
toLowerCase(c) ==
    IF Includes(UpperLetters, c) THEN LowerLetters[IndexOf(UpperLetters, c)] ELSE c

IsLower(c) == Includes(LowerLetters, c)
IsUpper(c) == Includes(UpperLetters, c)

\* On a string.
StrToLower(s) == [i \in DOMAIN s |-> toLowerCase(s[i])]

\* const SPECIAL_CHARS = "#!?%=@*$" ; const NUMBER_CHARS = "0123456789"
\* The mutant lists the separator among the special characters.
SPECIAL_CHARS_WithHyphen == <<"-", "#", "!", "?", "%", "=", "@", "*", "$">>
SPECIAL_CHARS == <<"#", "!", "?", "%", "=", "@", "*", "$">>
NUMBER_CHARS == <<"0", "1", "2", "3", "4", "5", "6", "7", "8", "9">>

\* String.prototype.normalize("NFD")
NFD(word) ==
    Flatten([i \in DOMAIN word |->
        IF Includes(Precomposed, word[i])
          THEN <<DecomposedBase[IndexOf(Precomposed, word[i])], "'">>
          ELSE <<word[i]>>])

NotCombiningMark(c) == c \notin CombiningMarks

\* word.normalize("NFD").replace(/[U+0300-U+036F]/g, "").toLowerCase()
\* The mutant forgets the lowercasing.
normalize_NoLower(word) == SelectSeq(NFD(word), NotCombiningMark)
normalize(word) == StrToLower(SelectSeq(NFD(word), NotCombiningMark))

\* Array.prototype.join("-")
RECURSIVE Join(_)
Join(ws) ==
    IF ws = <<>> THEN <<>>
    ELSE IF Len(ws) = 1 THEN ws[1]
    ELSE ws[1] \o <<"-">> \o Join(Tail(ws))

\* String.prototype.split("-"): always at least one segment.
Split(s) ==
    LET \* The positions of the hyphens, in order.
        hyphens == SelectSeq([i \in 1..Len(s) |-> i], LAMBDA i : s[i] = "-")
        \* The k-th of them; 0 and Len(s) + 1 bound the string.
        At(k) == IF k = 0 THEN 0
                 ELSE IF k > Len(hyphens) THEN Len(s) + 1
                 ELSE hyphens[k]
    IN  [k \in 1..(Len(hyphens) + 1) |-> SubSeq(s, At(k - 1) + 1, At(k) - 1)]

---------------------------------------------------------------------------
(* The word catalog and the options.                                       *)

\* The sequence of length n that repeats the sequence s.
Cycle(s, n) == [i \in 1 .. n |-> s[((i - 1) % Len(s)) + 1]]

\* WORD_CATEGORIES[defaultLocale]: the word lists, as stored.  Two stored
\* words may normalize to the same word ("cat" and its accented twin).
WORD_CATEGORIES ==
    [common |-> Cycle(<< <<"c", "a", "t">>, <<"t", "o">>, <<"l", "a", "m", "p">>,
                         <<"d", "o", "g">>, <<"c", "a'", "t">>, <<"c", "a", "b">> >>, 30),
     nature |-> Cycle(<< <<"e", "l", "m">>, <<"o", "a", "t">>, <<"p", "e'", "a">>,
                         <<"m", "o", "a", "t">> >>, 28),
     technology |-> Cycle(<< <<"b", "o", "t">>, <<"c", "o'", "d">>,
                             <<"c", "o", "d", "e">> >>, 39)]

Categories == DOMAIN WORD_CATEGORIES

\* The largest wordCount the model runs (the page's slider: 2 to 6).
MaxWordCount == 3

\* characterDensity, in percent: the page's slider gives value / 100 for the
\* values 20, 30, ... 100.
Densities == {20, 50, 70, 100}

\* minWordLength and maxWordLength, scaled to the catalog's short words.
MinLengths == {2, 3}
MaxLengths == {3, 4}

PasswordOptions ==
    [wordCount : 2 .. MaxWordCount,
     includeCapitals : BOOLEAN,
     includeNumbers : BOOLEAN,
     includeSpecials : BOOLEAN,
     wordCategory : Categories,
     minWordLength : MinLengths,
     maxWordLength : MaxLengths,
     characterDensity : Densities,
     avoidSimilarWords : BOOLEAN]

\* The fields getRandomWords does not read are fixed.
SelectOptions ==
    {o \in PasswordOptions :
        /\ ~o.includeCapitals /\ ~o.includeNumbers /\ ~o.includeSpecials
        /\ o.characterDensity = 70}

DefaultOptions ==
    [wordCount |-> 2, includeCapitals |-> FALSE, includeNumbers |-> FALSE,
     includeSpecials |-> FALSE, wordCategory |-> "common", minWordLength |-> 2,
     maxWordLength |-> 4, characterDensity |-> 70, avoidSimilarWords |-> FALSE]

NoError == [kind |-> "none", count |-> 0]

---------------------------------------------------------------------------
(* getFilteredWords, areSimilar, getRandomWords.                           *)

\* if (filteredWords.length < 25)
MIN_POOL == 25

\* const normalizedWords = words.map(normalize)
NormalizedWords(o) ==
    LET ws == WORD_CATEGORIES[o.wordCategory]
    IN  [i \in DOMAIN ws |-> normalize(ws[i])]

\* normalizedWords.filter(word => word.length >= opts.minWordLength &&
\*                                word.length <= opts.maxWordLength)
\* The mutant forgets the upper bound.
FilteredWords_NoMax(o) ==
    LET Keep(w) == Len(w) >= o.minWordLength
    IN  SelectSeq(NormalizedWords(o), Keep)
FilteredWords(o) ==
    LET Keep(w) == Len(w) >= o.minWordLength /\ Len(w) <= o.maxWordLength
    IN  SelectSeq(NormalizedWords(o), Keep)

\* throw new Error(`Word list too small (${filteredWords.length} words). ...`)
\* The mutant reports the size of the unfiltered list.
WordListTooSmall_Unfiltered(o) ==
    [kind |-> "WordListTooSmall", count |-> Len(NormalizedWords(o))]
WordListTooSmall(o) ==
    [kind |-> "WordListTooSmall", count |-> Len(FilteredWords(o))]

\* throw new Error("Not enough words available with current filters")
NotEnoughWords(o) == [kind |-> "NotEnoughWords", count |-> Len(FilteredWords(o))]

\* word.substring(0, 2)
Prefix2(w) == SubSeq(w, 1, Min(2, Len(w)))

\* The mutant takes only words of the same length for similar.
areSimilar_SameLength(word1, word2, o) ==
    IF ~o.avoidSimilarWords THEN FALSE
    ELSE /\ Prefix2(word1) = Prefix2(word2)
         /\ Len(word1) = Len(word2)

areSimilar(word1, word2, o) ==
    IF ~o.avoidSimilarWords THEN FALSE
    ELSE /\ Prefix2(word1) = Prefix2(word2)
         /\ Abs(Len(word1) - Len(word2)) <= 1

\* const maxAttempts = availableWords.length * 2
MaxAttempts(pool) == Len(pool) * 2

\* Where getRandomWords stands with ws selected after att attempts: in the
\* for loop, in the while loop, or at its return.
LoopPc(ws, att, pool, count) ==
    IF att < MaxAttempts(pool) /\ Len(ws) < count THEN "select"
    ELSE IF Len(ws) < count THEN "fallback"
    ELSE "selected"

\* if (!isSimilar && !words.includes(candidate)) words.push(candidate)
\* The mutant forgets the includes test.
PushCandidate_NoIncludes(ws, candidate, o) ==
    IF ~(\E i \in DOMAIN ws : areSimilar(candidate, ws[i], o))
      THEN Append(ws, candidate) ELSE ws
PushCandidate(ws, candidate, o) ==
    IF /\ ~(\E i \in DOMAIN ws : areSimilar(candidate, ws[i], o))
       /\ ~Includes(ws, candidate)
      THEN Append(ws, candidate) ELSE ws

\* getRandomWords(count, o) up to its first loop test, called by who.
getRandomWordsBegin(count, o, who) ==
    /\ caller' = who
    /\ opts' = o
    /\ selected' = TRUE
    /\ drew' = FALSE
    /\ words' = <<>>
    /\ attempts' = 0
    /\ processed' = <<>>
    /\ indices' = <<>>
    /\ applied' = 0
    /\ before' = <<>>
    /\ chan' = "none"
    /\ IF Len(FilteredWords(o)) < MIN_POOL
         THEN /\ error' = WordListTooSmall(o)
              /\ availableWords' = <<>>
              /\ pc' = "threw"
         ELSE IF Len(FilteredWords(o)) < count
         THEN /\ error' = NotEnoughWords(o)
              /\ availableWords' = FilteredWords(o)
              /\ pc' = "threw"
         ELSE /\ error' = NoError
              /\ availableWords' = FilteredWords(o)
              /\ pc' = LoopPc(<<>>, 0, FilteredWords(o), count)

\* A call of getRandomWords on its own.
SelectCall ==
    /\ pc = "idle"
    /\ caller = "none"
    /\ \E o \in SelectOptions : getRandomWordsBegin(o.wordCount, o, "select")
    /\ UNCHANGED <<options, password, isGenerating, retval, rngVars, scVars, pageVars>>

\* One round of the for loop: a draw, the similarity test, the push.
SelectStep ==
    /\ pc = "select"
    /\ \E index \in getSecureRandom(Len(availableWords)) :
         LET candidate == availableWords[index + 1]
             nw == PushCandidate(words, candidate, opts)
             npc == LoopPc(nw, attempts + 1, availableWords, opts.wordCount)
         IN  /\ words' = nw
             /\ pc' = npc
             /\ attempts' = IF npc = "selected" THEN 0 ELSE attempts + 1
    /\ drew' = TRUE
    /\ UNCHANGED <<caller, opts, availableWords, processed, indices, applied,
                   before, chan, error, selected, retval>>
    /\ UNCHANGED <<options, password, isGenerating, rngVars, scVars, pageVars>>

\* One round of the while loop: any word not yet selected is taken.
FallbackStep ==
    /\ pc = "fallback"
    /\ \E index \in getSecureRandom(Len(availableWords)) :
         LET candidate == availableWords[index + 1]
             nw == IF ~Includes(words, candidate) THEN Append(words, candidate)
                   ELSE words
         IN  /\ words' = nw
             /\ IF Len(nw) < opts.wordCount
                  THEN pc' = "fallback" /\ UNCHANGED attempts
                  ELSE pc' = "selected" /\ attempts' = 0
    /\ drew' = TRUE
    /\ UNCHANGED <<caller, opts, availableWords, processed, indices, applied,
                   before, chan, error, selected, retval>>
    /\ UNCHANGED <<options, password, isGenerating, rngVars, scVars, pageVars>>

HookInit ==
    /\ options = DefaultOptions
    /\ password = <<>>
    /\ isGenerating = FALSE
    /\ pc = "idle"
    /\ caller = "none"
    /\ opts = DefaultOptions
    /\ availableWords = <<>>
    /\ words = <<>>
    /\ attempts = 0
    /\ processed = <<>>
    /\ indices = <<>>
    /\ applied = 0
    /\ before = <<>>
    /\ chan = "none"
    /\ error = NoError
    /\ drew = FALSE
    /\ selected = FALSE
    /\ retval = <<>>

\* getPasswordComplexity has not been called.
ScIdle ==
    /\ scPc = "input"
    /\ scType = "string"
    /\ scPassword = <<>>
    /\ scSteps = <<>>
    /\ scReport = [score |-> 0, level |-> "weak", feedback |-> <<>>]
    /\ meEntropy = 0
    /\ meScore = 0

\* usePasswordHistory starts with no entries.
HistoryInit == history = <<>>

\* getRandomWords on its own, for every options value.
SelectNext == SelectCall \/ SelectStep \/ FallbackStep
InitSelect == RngInit /\ HookInit /\ ScIdle /\ HistoryInit
SpecSelect == InitSelect /\ [][SelectNext]_vars

---------------------------------------------------------------------------
(* Properties of getRandomWords.                                           *)

Distinct(s) == \A i, j \in DOMAIN s : i # j => s[i] # s[j]

\* C1: when getRandomWords(count, opts) returns, it returns exactly count
\* words, pairwise distinct, each of a length in
\* [minWordLength, maxWordLength], whatever the random source returned.
C1_SelectsCountDistinctBounded ==
    pc = "selected" =>
        /\ Len(words) = opts.wordCount
        /\ Distinct(words)
        /\ \A i \in DOMAIN words :
             /\ Len(words[i]) >= opts.minWordLength
             /\ Len(words[i]) <= opts.maxWordLength

\* A call that returned three words from a pool of exactly 25, the third one
\* taken by the while loop although similar to an earlier one.
C1_Witness ==
    /\ pc = "selected"
    /\ Len(words) = 3
    /\ Len(availableWords) = MIN_POOL
    /\ opts.avoidSimilarWords
    /\ \E i, j \in DOMAIN words : i # j /\ areSimilar(words[i], words[j], opts)

\* Two words are similar: the same first two characters and lengths that
\* differ by at most one.
Similar(w1, w2) ==
    /\ SubSeq(w1, 1, Min(2, Len(w1))) = SubSeq(w2, 1, Min(2, Len(w2)))
    /\ Len(w1) - Len(w2) \in {0 - 1, 0, 1}

NoSimilarPair(ws) == \A i, j \in DOMAIN ws : i # j => ~Similar(ws[i], ws[j])

FilteredCount(o) ==
    Cardinality({i \in DOMAIN WORD_CATEGORIES[o.wordCategory] :
        LET n == Len(normalize(WORD_CATEGORIES[o.wordCategory][i]))
        IN  n >= o.minWordLength /\ n <= o.maxWordLength})

\* C2: once getRandomWords is called with options whose filtered catalog
\* has fewer than 25 words, the call has failed with the error that names
\* that count, and no call to the random source was made.
C2_SmallPoolFailsBeforeDraw ==
    (selected /\ FilteredCount(opts) < 25) =>
        /\ pc = "threw"
        /\ error = [kind |-> "WordListTooSmall", count |-> FilteredCount(opts)]
        /\ ~drew
        /\ words = <<>>

\* The category "common" filtered to length 3 leaves 20 of its 30 words.
C2_Witness ==
    /\ pc = "threw"
    /\ selected
    /\ opts.wordCategory = "common"
    /\ error = [kind |-> "WordListTooSmall", count |-> 20]
    /\ ~drew

---------------------------------------------------------------------------
(* insertRandomChar, modifyRandomWords, processWords.                      *)

\* How many characters of NUMBER_CHARS and of SPECIAL_CHARS the model draws
\* from: the first MaxNumberChars digits, the first MaxSpecialChars symbols.
MaxNumberChars == 1
MaxSpecialChars == 1

\* insertNumberInWord and insertSpecialInWord pass these to insertRandomChar.
CharsOf(channel) ==
    IF channel = "numbers"
      THEN SubSeq(NUMBER_CHARS, 1, Min(MaxNumberChars, Len(NUMBER_CHARS)))
      ELSE SubSeq(SPECIAL_CHARS, 1, Min(MaxSpecialChars, Len(SPECIAL_CHARS)))

\* word.slice(0, position) + char + word.slice(position)
InsertAt(word, position, char) ==
    SubSeq(word, 1, position) \o <<char>> \o SubSeq(word, position + 1, Len(word))

\* const position = getSecureRandom(word.length - 2) + 1
\* The mutant may insert before the first character.
InsertPositions_FromZero(word) == {r : r \in getSecureRandom(Len(word) - 1)}
InsertPositions(word) == {r + 1 : r \in getSecureRandom(Len(word) - 2)}

\* The words insertRandomChar(word, chars) can return.
\* The mutant forgets the guard on short words.
insertRandomChar_NoGuard(word, chars) ==
    {InsertAt(word, Min(1, Len(word)), chars[c + 1]) :
        c \in getSecureRandom(Len(chars))}
insertRandomChar(word, chars) ==
    IF Len(word) <= 2 THEN {word}
    ELSE {InsertAt(word, position, chars[c + 1]) :
            c \in getSecureRandom(Len(chars)), position \in InsertPositions(word)}

\* const wordsToModify = Math.max(1, Math.floor(words.length * density))
\* with density = percent / 100.
\* The mutant forgets the floor of one word.
wordsToModify_NoMin(n, percent) == (n * percent) \div 100
\* This mutant rounds up past the number of words.
wordsToModify_Above(n, percent) == Max(1, (n * percent) \div 100 + 1)
wordsToModify(n, percent) == Max(1, (n * percent) \div 100)

\* word.charAt(0).toUpperCase() + word.slice(1)
\* The mutant uppercases the last character.
Capitalize_Last(word) ==
    IF word = <<>> THEN word
    ELSE SubSeq(word, 1, Len(word) - 1) \o <<toUpperCase(word[Len(word)])>>
Capitalize(word) ==
    IF word = <<>> THEN word ELSE <<toUpperCase(word[1])>> \o Tail(word)

\* processed = [...words], then the capitalization.
Capitalized(ws, o) ==
    IF o.includeCapitals THEN [i \in DOMAIN ws |-> Capitalize(ws[i])] ELSE ws

\* The pass that follows pass `after` in processWords: the digits, the
\* symbols, then the join.
NextPass(after, o) ==
    IF after = "start" /\ o.includeNumbers THEN "numbers"
    ELSE IF after \in {"start", "numbers"} /\ o.includeSpecials THEN "specials"
    ELSE "none"

\* Where processWords stands in pass `channel` with the indices ind drawn and
\* app of them visited: in the while loop of modifyRandomWords, in its
\* forEach, at its return, or at the join when no pass is left.
PassPc(channel, ind, app, n, o) ==
    IF channel = "none" THEN "join"
    ELSE IF Len(ind) < wordsToModify(n, o.characterDensity) THEN "pick"
    ELSE IF app < Len(ind) THEN "apply"
    ELSE "modified"

\* processWords(ws, o) up to the first draw of its first pass.
processWordsBegin(ws, o) ==
    /\ words' = ws
    /\ processed' = Capitalized(ws, o)
    /\ before' = Capitalized(ws, o)
    /\ indices' = <<>>
    /\ applied' = 0
    /\ chan' = NextPass("start", o)
    /\ pc' = PassPc(NextPass("start", o), <<>>, 0, Len(ws), o)

\* modifyRandomWords: one round of  while (indices.size < wordsToModify).
PickIndex ==
    /\ pc = "pick"
    /\ \E index \in getSecureRandom(Len(processed)) :
         LET ni == IF Includes(indices, index) THEN indices
                   ELSE Append(indices, index)
         IN  /\ indices' = ni
             /\ pc' = PassPc(chan, ni, 0, Len(processed), opts)
    /\ drew' = TRUE
    /\ UNCHANGED <<caller, opts, availableWords, words, attempts, processed,
                   applied, before, chan, error, selected, retval>>
    /\ UNCHANGED <<options, password, isGenerating, rngVars, scVars, pageVars>>

\* modifyRandomWords: one callback of indices.forEach, in insertion order.
ApplyIndex ==
    /\ pc = "apply"
    /\ LET index == indices[applied + 1]
       IN  \E w \in insertRandomChar(processed[index + 1], CharsOf(chan)) :
             processed' = [processed EXCEPT ![index + 1] = w]
    /\ applied' = applied + 1
    /\ pc' = PassPc(chan, indices, applied + 1, Len(processed), opts)
    /\ drew' = (drew \/ Len(processed[indices[applied + 1] + 1]) > 2)
    /\ UNCHANGED <<caller, opts, availableWords, words, attempts, indices,
                   before, chan, error, selected, retval>>
    /\ UNCHANGED <<options, password, isGenerating, rngVars, scVars, pageVars>>

\* modifyRandomWords returns; processWords goes on to its next pass.
PassEnd ==
    /\ pc = "modified"
    /\ before' = processed
    /\ indices' = <<>>
    /\ applied' = 0
    /\ chan' = NextPass(chan, opts)
    /\ pc' = PassPc(NextPass(chan, opts), <<>>, 0, Len(processed), opts)
    /\ UNCHANGED <<caller, opts, availableWords, words, attempts, processed,
                   error, drew, selected, retval>>
    /\ UNCHANGED <<options, password, isGenerating, rngVars, scVars, pageVars>>

\* The word lists processWords is run on by itself: lists of distinct
\* normalized catalog words, as getRandomWords returns them.
TransformWords ==
    {normalize(WORD_CATEGORIES.common[i]) : i \in 1 .. 3}
TransformInputs ==
    {ws \in UNION {[1 .. n -> TransformWords] : n \in 2 .. MaxWordCount} :
        Distinct(ws)}

\* The fields processWords does not read are fixed.
TransformOptions ==
    {o \in PasswordOptions :
        /\ o.wordCategory = "common" /\ o.minWordLength = 2
        /\ o.maxWordLength = 4 /\ ~o.avoidSimilarWords
        /\ o.wordCount = 2}

\* A call of processWords on its own.
ProcessCall ==
    /\ pc = "idle"
    /\ \E ws \in TransformInputs, o \in TransformOptions :
         /\ opts' = o
         /\ processWordsBegin(ws, o)
    /\ caller' = "process"
    /\ selected' = FALSE
    /\ drew' = FALSE
    /\ error' = NoError
    /\ UNCHANGED <<availableWords, attempts, retval>>
    /\ UNCHANGED <<options, password, isGenerating, rngVars, scVars, pageVars>>

\* return processed.join("-")
ProcessReturn ==
    /\ pc = "join"
    /\ caller = "process"
    /\ retval' = Join(processed)
    /\ pc' = "returned"
    /\ UNCHANGED <<caller, opts, availableWords, words, attempts, processed,
                   indices, applied, before, chan, error, drew, selected>>
    /\ UNCHANGED <<options, password, isGenerating, rngVars, scVars, pageVars>>

TransformNext == ProcessCall \/ PickIndex \/ ApplyIndex \/ PassEnd \/ ProcessReturn
InitTransform == RngInit /\ HookInit /\ ScIdle /\ HistoryInit
\* processWords on its own, for every word list and options value.
SpecTransform == InitTransform /\ [][TransformNext]_vars

---------------------------------------------------------------------------
(* The base words of a password, as updatePasswordWithOptions rebuilds     *)
(* them.                                                                   *)

\* const charsToRemove = `${SPECIAL_CHARS}${NUMBER_CHARS}`
\* The mutant forgets the digits.
charsToRemove_SpecialsOnly == SPECIAL_CHARS
charsToRemove == SPECIAL_CHARS \o NUMBER_CHARS

NotRemoved(c) == ~Includes(charsToRemove, c)

\* word.replace(new RegExp(`[${charsToRemove}]`, "g"), "").toLowerCase()
StripWord(word) == StrToLower(SelectSeq(word, NotRemoved))

\* password.split("-").map(word => ...)
BaseWords(pw) == [i \in DOMAIN Split(pw) |-> StripWord(Split(pw)[i])]

\* The words updatePasswordWithOptions(o) passes to processWords.
\* The mutant takes as many words afresh from the catalog of the new options.
UpdateWords_FromCatalog(pw, o) == SubSeq(FilteredWords(o), 1, Len(Split(pw)))
UpdateWords(pw, o) == BaseWords(pw)

---------------------------------------------------------------------------
(* Properties of processWords.                                             *)

IsDecoration(c) == Includes(NUMBER_CHARS, c) \/ Includes(SPECIAL_CHARS, c)

\* C4: splitting the result of processWords(ws, opts) on "-", removing the
\* digits and the eight special characters from each segment and
\* lowercasing gives back ws, the same words in the same order.
C4_StripRecoversWords ==
    pc = "returned" => BaseWords(retval) = words

\* A result with three words, capitals, a digit and a symbol in it.
C4_Witness ==
    /\ pc = "returned"
    /\ Len(words) = 3
    /\ opts.includeCapitals
    /\ \E i \in DOMAIN retval : Includes(NUMBER_CHARS, retval[i])
    /\ \E i \in DOMAIN retval : Includes(SPECIAL_CHARS, retval[i])
    /\ BaseWords(retval) = words

\* C7: with includeCapitals every segment of the result of processWords
\* starts with the uppercase form of its word's first letter, also after
\* the digits and symbols went in; without it no segment holds an uppercase
\* letter; whatever the characterDensity.
C7_CapitalsAllOrNothing ==
    pc = "returned" =>
        LET segs == Split(retval)
        IN  /\ Len(segs) = Len(words)
            /\ opts.includeCapitals =>
                 \A i \in DOMAIN segs :
                    /\ segs[i][1] = toUpperCase(words[i][1])
                    /\ IsUpper(segs[i][1])
            /\ ~opts.includeCapitals =>
                 \A i \in DOMAIN segs : \A j \in DOMAIN segs[i] : ~IsUpper(segs[i][j])

\* A capitalized result in which every word of three took a digit and a
\* symbol.
C7_Witness ==
    /\ pc = "returned"
    /\ opts.includeCapitals
    /\ opts.characterDensity = 100
    /\ Len(words) = 3
    /\ \A i \in DOMAIN processed :
         Len(words[i]) > 2 => Len(processed[i]) = Len(words[i]) + 2
    /\ \A i \in DOMAIN processed : IsUpper(Split(retval)[i][1])

\* C8: when a pass of modifyRandomWords over n words ends, it has drawn
\* exactly max(1, floor(n * density)) pairwise distinct indices; each drawn
\* word of length >= 3 has exactly one character of the pass's alphabet
\* inserted, each drawn word of length <= 2 and each word not drawn is as it
\* was before the pass.
C8_DensityPicksDistinctWords ==
    pc = "modified" =>
        LET n == Len(before)
            k == IF (n * opts.characterDensity) \div 100 >= 1
                   THEN (n * opts.characterDensity) \div 100 ELSE 1
            alphabet == IF chan = "numbers" THEN NUMBER_CHARS ELSE SPECIAL_CHARS
        IN  /\ Len(indices) = k
            /\ Distinct(indices)
            /\ \A j \in DOMAIN indices : indices[j] \in 0 .. n - 1
            /\ Len(processed) = n
            /\ \A i \in 1 .. n :
                 IF Includes(indices, i - 1) /\ Len(before[i]) >= 3
                   THEN \E p \in 0 .. Len(before[i]), c \in DOMAIN alphabet :
                          processed[i] = InsertAt(before[i], p, alphabet[c])
                   ELSE processed[i] = before[i]

\* The symbol pass over three words at density 0.7 drew two of them: a word
\* of two letters, left as it was, and a longer one, which took a symbol.
C8_Witness ==
    /\ pc = "modified"
    /\ chan = "specials"
    /\ Len(before) = 3
    /\ opts.characterDensity = 70
    /\ Len(indices) = 2
    /\ \E j \in DOMAIN indices :
         /\ Len(before[indices[j] + 1]) = 2
         /\ processed[indices[j] + 1] = before[indices[j] + 1]
    /\ \E j \in DOMAIN indices :
         Len(processed[indices[j] + 1]) = Len(before[indices[j] + 1]) + 1

---------------------------------------------------------------------------
(* getSecureRandom on its own, for every max up to the draw range.         *)

InitRandom == RngInit /\ HookInit /\ ScIdle /\ HistoryInit
SpecRandom == InitRandom /\ [][RngNext]_vars

\* The draws that a call with this max accepts and maps to r.
AcceptedDrawsTo(max, r) ==
    {d \in 0 .. DrawRange - 1 : d < RandomLimit(max) /\ d % max = r}

\* The values the cryptographic path of getSecureRandom(max) returns.
CryptoResults(max) ==
    {v % max : v \in {d \in 0 .. DrawRange - 1 : d < RandomLimit(max)}}

\* C14: the caller can tell which random path was used. The hook returns
\* only password, generatePassword, updatePasswordWithOptions and
\* isGenerating, all of them determined by the values getSecureRandom
\* returned, so telling the paths apart requires that a value returned by the
\* fallback path is never one the cryptographic path returns for the same
\* argument.
C14_FallbackObservable ==
    (rngPc = "done" /\ ~rngCrypto) => rngResult \notin CryptoResults(rngMax)

\* C6: on the cryptographic path getSecureRandom(max) returns only after a
\* draw below floor(2^w / max) * max, and returns that draw modulo max, a
\* value of [0, max); every other draw is rejected and drawn again; and
\* every value of [0, max) has exactly floor(2^w / max) accepted draws.
C6_RejectionSamplingUnbiased ==
    /\ (rngCrypto /\ rngPc = "done") =>
          /\ rngVal < (DrawRange \div rngMax) * rngMax
          /\ rngResult = rngVal % rngMax
          /\ rngResult \in 0 .. rngMax - 1
    /\ rngPc = "redraw" =>
          /\ rngCrypto
          /\ rngVal >= (DrawRange \div rngMax) * rngMax
    /\ \A r \in 0 .. rngMax - 1 :
          Cardinality(AcceptedDrawsTo(rngMax, r)) = DrawRange \div rngMax

\* max = 3 does not divide the draw range: the largest accepted draw is the
\* one just below the limit, and it maps to 2.
C6_Witness ==
    /\ rngPc = "done"
    /\ rngCrypto
    /\ rngMax = 3
    /\ rngVal = (DrawRange \div 3) * 3 - 1
    /\ rngVal + 1 < DrawRange
    /\ rngResult = 2

---------------------------------------------------------------------------
(* generatePassword and updatePasswordWithOptions.                         *)

\* The locals of a call are gone when it returns.
LocalsDropped ==
    /\ opts' = DefaultOptions
    /\ availableWords' = <<>>
    /\ words' = <<>>
    /\ attempts' = 0
    /\ processed' = <<>>
    /\ indices' = <<>>
    /\ applied' = 0
    /\ before' = <<>>
    /\ chan' = "none"

\* setIsGenerating(true); getRandomWords(options.wordCount, options)
GenerateCall ==
    /\ pc = "idle"
    /\ isGenerating' = TRUE
    /\ getRandomWordsBegin(options.wordCount, options, "generate")
    /\ retval' = <<>>
    /\ UNCHANGED <<options, password, rngVars, scVars, pageVars>>

\* const newPassword = processWords(words, options)
GenerateProcess ==
    /\ pc = "selected"
    /\ caller = "generate"
    /\ processWordsBegin(words, opts)
    /\ UNCHANGED <<caller, opts, availableWords, attempts, error, drew,
                   selected, retval>>
    /\ UNCHANGED <<options, password, isGenerating, rngVars, scVars, pageVars>>

\* setPassword(newPassword); return newPassword; finally setIsGenerating(false)
generatePasswordReturns ==
    /\ pc = "join"
    /\ caller = "generate"
    /\ password' = Join(processed)
    /\ retval' = Join(processed)
    /\ isGenerating' = FALSE
    /\ pc' = "idle"
    /\ LocalsDropped
    /\ UNCHANGED <<caller, error, drew, selected>>
    /\ UNCHANGED <<options, rngVars, scVars>>

GenerateReturn == generatePasswordReturns /\ UNCHANGED pageVars

\* The catch path without the finally block.
generatePasswordCatches_FlagKept ==
    /\ pc = "threw"
    /\ caller = "generate"
    /\ retval' = <<>>
    /\ pc' = "idle"
    /\ LocalsDropped
    /\ UNCHANGED <<caller, error, drew, selected>>
    /\ UNCHANGED <<options, password, isGenerating, rngVars, scVars>>

\* catch (error) { console.error(...); return "" } finally setIsGenerating(false)
generatePasswordCatches ==
    /\ pc = "threw"
    /\ caller = "generate"
    /\ retval' = <<>>
    /\ isGenerating' = FALSE
    /\ pc' = "idle"
    /\ LocalsDropped
    /\ UNCHANGED <<caller, error, drew, selected>>
    /\ UNCHANGED <<options, password, rngVars, scVars>>

GenerateCatch == generatePasswordCatches /\ UNCHANGED pageVars

\* The newOptions the model passes to updatePasswordWithOptions: every
\* combination of the fields processWords reads, with every other field
\* different from the options the password was generated with.
UpdateOptions ==
    {o \in PasswordOptions :
        /\ o.wordCount = MaxWordCount /\ o.wordCategory = "nature"
        /\ o.minWordLength = 2 /\ o.maxWordLength = 4 /\ o.avoidSimilarWords
        /\ o.characterDensity \in {50, 100}}

\* updatePasswordWithOptions(newOptions) up to the first draw of processWords;
\* if (!password) return.  The call returns no value.
updatePasswordWithOptionsBegin(newOptions) ==
    IF password = <<>>
      THEN UNCHANGED <<isGenerating, callVars>>
      ELSE /\ isGenerating' = TRUE
           /\ caller' = "update"
           /\ opts' = newOptions
           /\ selected' = FALSE
           /\ drew' = FALSE
           /\ error' = NoError
           /\ availableWords' = <<>>
           /\ attempts' = 0
           /\ processWordsBegin(UpdateWords(password, newOptions), newOptions)
           /\ retval' = <<>>

UpdateCall ==
    /\ pc = "idle"
    /\ \E newOptions \in UpdateOptions : updatePasswordWithOptionsBegin(newOptions)
    /\ UNCHANGED <<options, password, rngVars, scVars, pageVars>>

\* setPassword(updatedPassword); finally setIsGenerating(false)
UpdateReturn ==
    /\ pc = "join"
    /\ caller = "update"
    /\ password' = Join(processed)
    /\ isGenerating' = FALSE
    /\ pc' = "idle"
    /\ LocalsDropped
    /\ UNCHANGED <<caller, error, drew, selected, retval>>
    /\ UNCHANGED <<options, rngVars, scVars, pageVars>>

\* The options the hook is rendered with: two words of three letters, from a
\* category that has them ("technology") or from one that does not
\* ("common"), plain or fully decorated.
HookOptions ==
    {o \in PasswordOptions :
        /\ o.wordCount = 2 /\ o.minWordLength = 3 /\ o.maxWordLength = 3
        /\ o.wordCategory \in {"technology", "common"}
        /\ ~o.avoidSimilarWords /\ o.characterDensity = 100
        /\ o.includeCapitals = o.includeNumbers
        /\ o.includeNumbers = o.includeSpecials}

\* The hook as rendered with one of these options, before any call.
HookRendered(optionSet) ==
    /\ RngInit
    /\ ScIdle
    /\ HistoryInit
    /\ options \in optionSet
    /\ password = <<>>
    /\ isGenerating = FALSE
    /\ pc = "idle"
    /\ caller = "none"
    /\ opts = DefaultOptions
    /\ availableWords = <<>>
    /\ words = <<>>
    /\ attempts = 0
    /\ processed = <<>>
    /\ indices = <<>>
    /\ applied = 0
    /\ before = <<>>
    /\ chan = "none"
    /\ error = NoError
    /\ drew = FALSE
    /\ selected = FALSE
    /\ retval = <<>>

InitHook == HookRendered(HookOptions)

HookNext ==
    \/ GenerateCall \/ SelectStep \/ FallbackStep \/ GenerateProcess
    \/ GenerateCatch \/ GenerateReturn
    \/ UpdateCall \/ UpdateReturn
    \/ PickIndex \/ ApplyIndex \/ PassEnd

\* The hook, called by its owner in any order.
SpecHook == InitHook /\ [][HookNext]_vars

---------------------------------------------------------------------------
(* Properties of generatePassword and updatePasswordWithOptions.           *)

\* A segment with its digits and special characters removed, lowercased.
UndecoratedLower(seg) ==
    LET Letter(c) == ~IsDecoration(c)
    IN  StrToLower(SelectSeq(seg, Letter))

\* The base words of a password: its hyphen-separated segments, undecorated.
BaseWordsOf(pw) == [i \in DOMAIN Split(pw) |-> UndecoratedLower(Split(pw)[i])]

\* C3: the password that updatePasswordWithOptions(newOptions) sets has the
\* same base words, in the same order and number, as the password it
\* replaces, for every newOptions; and the update runs no word selection.
C3_UpdateKeepsBaseWords ==
    [][(caller = "update" /\ pc # "idle") =>
          /\ ~selected
          /\ ~selected'
          /\ pc = "join" =>
               /\ password' = Join(processed)
               /\ Len(Split(password')) = Len(Split(password))
               /\ BaseWordsOf(password') = BaseWordsOf(password)]_vars

\* An update is about to replace the generated password by one with other
\* decorations on the same words, under options whose category, lengths
\* and word count differ from those the password was generated with.
C3_Witness ==
    /\ pc = "join"
    /\ caller = "update"
    /\ password # <<>>
    /\ Join(processed) # password
    /\ opts.wordCategory # options.wordCategory
    /\ opts.wordCount # options.wordCount
    /\ opts.minWordLength # options.minWordLength
    /\ opts.includeCapitals # options.includeCapitals
    /\ BaseWordsOf(Join(processed)) = BaseWordsOf(password)
    /\ ~selected

\* C5: splitting the result of processWords on "-" gives one segment per
\* word, the i-th being the transformed i-th word: no catalog word holds a
\* hyphen once normalized, and neither the capitalization nor the digits
\* and symbols put one into a word.
C5_SplitRecoversWordBoundaries ==
    /\ \A cat \in Categories : \A i \in DOMAIN WORD_CATEGORIES[cat] :
          ~Includes(normalize(WORD_CATEGORIES[cat][i]), "-")
    /\ \A i \in DOMAIN processed : ~Includes(processed[i], "-")
    /\ pc = "returned" =>
          /\ Len(Split(retval)) = Len(words)
          /\ \A i \in DOMAIN words :
               /\ Split(retval)[i] = processed[i]
               /\ UndecoratedLower(Split(retval)[i]) = words[i]

\* Three words, each with a symbol in it, split back into three segments.
C5_Witness ==
    /\ pc = "returned"
    /\ Len(words) = 3
    /\ opts.includeSpecials
    /\ opts.characterDensity = 100
    /\ Len(Split(retval)) = 3
    /\ \E i \in DOMAIN processed : \E j \in DOMAIN processed[i] :
         Includes(SPECIAL_CHARS, processed[i][j])


\* ---------------------------------------------------------------------
\* password-analysis.ts: the strength scorer.
\* Entropies and unrounded scores are fixed-point numbers counted in
\* millionths; the score of a report is counted in hundredths, the two
\* decimals that toFixed(2) keeps.
\* ---------------------------------------------------------------------
Micro == 10 ^ 6

\* a / c rounded to nearest, for a >= 0 and c > 0.
RoundDiv(a, c) == (2 * a + c) \div (2 * c)

\* a * b / c rounded to nearest, without forming the product a * b.
MulDiv(a, b, c) == (a \div c) * b + RoundDiv((a % c) * b, c)

ENTROPY_THRESHOLDS ==
    [WEAK |-> 28, FAIR |-> 40, GOOD |-> 60, STRONG |-> 128, EXCELLENT |-> 256]

SCORE_RANGES ==
    [WEAK_MAX |-> 20, FAIR_MAX |-> 40, GOOD_MAX |-> 60, STRONG_MAX |-> 80,
     EXCELLENT_MAX |-> 100]

MINIMUM_LENGTH == 8
LONG_PASSWORD_LENGTH == 20
\* The two penalty factors 0.7 and 0.3, in tenths.
DEFAULT_DICTIONARY_PENALTY_FACTOR == 7
STRICT_DICTIONARY_PENALTY_FACTOR == 3
LENGTH_BONUS == 10
WORD_BONUS == 5
DICTIONARY_VARIETY_PENALTY == 5
\* The literal 20 subtracted from the score of a short password.
SHORT_PASSWORD_PENALTY == 20

\* The character classes of the regular expressions [a-z], [A-Z], [0-9].
AsciiLower ==
    {"a", "b", "c", "d", "e", "f", "g", "h", "i", "j", "k", "l", "m",
     "n", "o", "p", "q", "r", "s", "t", "u", "v", "w", "x", "y", "z"}
AsciiUpper ==
    {"A", "B", "C", "D", "E", "F", "G", "H", "I", "J", "K", "L", "M",
     "N", "O", "P", "Q", "R", "S", "T", "U", "V", "W", "X", "Y", "Z"}
AsciiDigits == {"0", "1", "2", "3", "4", "5", "6", "7", "8", "9"}

NotHyphen(c) == c # "-"
\* The characters that /[^a-zA-Z0-9]/ and /[^a-zA-Z0-9-]/ exclude.
Alphanumeric == AsciiLower \cup AsciiUpper \cup AsciiDigits
AlphanumericOrHyphen == Alphanumeric \cup {"-"}

\* /[...]/.test(s) and /[^...]/.test(s) for a class of characters.
Test(class, s) == \E i \in 1..Len(s) : s[i] \in class
TestNot(class, s) == \E i \in 1..Len(s) : s[i] \notin class

\* Math.log2 of the character set sizes that can occur, as
\* <<millionths, millionths of a millionth>>.
Log2Parts(size) ==
    CASE size = 10 -> <<3321928, 94887>>
      [] size = 26 -> <<4700439, 718141>>
      [] size = 32 -> <<5000000, 0>>
      [] size = 36 -> <<5169925, 1442>>
      [] size = 42 -> <<5392317, 422778>>
      [] size = 52 -> <<5700439, 718141>>
      [] size = 58 -> <<5857980, 995127>>
      [] size = 62 -> <<5954196, 310386>>
      [] size = 68 -> <<6087462, 841250>>
      [] size = 84 -> <<6392317, 422778>>
      [] size = 94 -> <<6554588, 851677>>

\* The largest power of two a double holds is below 2 ^ 1024: a power
\* size ** length of at least that many bits is Infinity, and so is its log2.
\* Infinity is modelled by the largest integer.
DOUBLE_MAX_EXPONENT == 1024
Infinity == 2147483647

\* Math.log2(size ** length): length * log2(size) in millionths of a bit
\* while the power is finite.
calculateEntropy(pw) ==
    IF Len(pw) = 0 THEN 0
    ELSE LET cleanPassword == SelectSeq(pw, NotHyphen)
             totalCharacterSetSize ==
                 (IF Test(AsciiLower, cleanPassword) THEN 26 ELSE 0)
                 + (IF Test(AsciiUpper, cleanPassword) THEN 26 ELSE 0)
                 + (IF Test(AsciiDigits, cleanPassword) THEN 10 ELSE 0)
                 + (IF TestNot(Alphanumeric, cleanPassword) THEN 32 ELSE 0)
             parts == Log2Parts(totalCharacterSetSize)
             bits == Len(cleanPassword) * parts[1]
                     + RoundDiv(Len(cleanPassword) * parts[2], Micro)
         IN  IF totalCharacterSetSize = 0 THEN 0
             ELSE IF bits >= DOUBLE_MAX_EXPONENT * Micro THEN Infinity
             ELSE bits

\* lowScore + ((entropy - low) / (high - low)) * (highScore - lowScore)
\* The mutant forgets the score the segment starts from.
Interpolate_FromZero(entropy, low, high, lowScore, highScore) ==
    MulDiv(entropy - low * Micro, highScore - lowScore, high - low)
Interpolate(entropy, low, high, lowScore, highScore) ==
    lowScore * Micro + MulDiv(entropy - low * Micro, highScore - lowScore, high - low)

mapEntropyToScore(entropy) ==
    IF entropy <= 0 THEN 0
    ELSE IF entropy < ENTROPY_THRESHOLDS.WEAK * Micro
    THEN Interpolate(entropy, 0, ENTROPY_THRESHOLDS.WEAK, 0, SCORE_RANGES.WEAK_MAX)
    ELSE IF entropy < ENTROPY_THRESHOLDS.FAIR * Micro
    THEN Interpolate(entropy, ENTROPY_THRESHOLDS.WEAK, ENTROPY_THRESHOLDS.FAIR,
                     SCORE_RANGES.WEAK_MAX, SCORE_RANGES.FAIR_MAX)
    ELSE IF entropy < ENTROPY_THRESHOLDS.GOOD * Micro
    THEN Interpolate(entropy, ENTROPY_THRESHOLDS.FAIR, ENTROPY_THRESHOLDS.GOOD,
                     SCORE_RANGES.FAIR_MAX, SCORE_RANGES.GOOD_MAX)
    ELSE IF entropy < ENTROPY_THRESHOLDS.STRONG * Micro
    THEN Interpolate(entropy, ENTROPY_THRESHOLDS.GOOD, ENTROPY_THRESHOLDS.STRONG,
                     SCORE_RANGES.GOOD_MAX, SCORE_RANGES.STRONG_MAX)
    ELSE IF entropy < ENTROPY_THRESHOLDS.EXCELLENT * Micro
    THEN Interpolate(entropy, ENTROPY_THRESHOLDS.STRONG, ENTROPY_THRESHOLDS.EXCELLENT,
                     SCORE_RANGES.STRONG_MAX, SCORE_RANGES.EXCELLENT_MAX)
    ELSE SCORE_RANGES.EXCELLENT_MAX * Micro

Count(b) == IF b THEN 1 ELSE 0

analyzeCharacterVariety(pw) ==
    LET checks == [hasLowercase |-> Test(AsciiLower, pw),
                   hasUppercase |-> Test(AsciiUpper, pw),
                   hasNumbers   |-> Test(AsciiDigits, pw),
                   hasSymbols   |-> TestNot(AlphanumericOrHyphen, pw)]
    IN  [varietyCount |-> Count(checks.hasLowercase) + Count(checks.hasUppercase)
                          + Count(checks.hasNumbers) + Count(checks.hasSymbols),
         checks |-> checks]

generateVarietyFeedback(varietyCount, checks, isDictionaryBased) ==
    IF varietyCount <= 1
    THEN <<"Include uppercase letters, numbers, or symbols (beyond hyphens) to enhance security">>
    ELSE IF varietyCount = 2
    THEN <<"Add another character type (e.g., numbers or symbols beyond hyphens) for stronger security">>
    ELSE IF varietyCount = 3 /\ isDictionaryBased
    THEN (IF ~checks.hasNumbers
          THEN <<"Incorporate numbers to further strengthen your password">>
          ELSE <<>>)
         \o (IF ~checks.hasSymbols
             THEN <<"Incorporate symbols (beyond hyphens) to further strengthen your password">>
             ELSE <<>>)
    ELSE <<>>


\* const penaltyFactor = !checks.hasSymbols && !checks.hasNumbers ? STRICT : DEFAULT
\* The mutant always takes the default factor.
penaltyFactor_Default(checks) == DEFAULT_DICTIONARY_PENALTY_FACTOR
\* This mutant always takes the strict factor.
penaltyFactor_Strict(checks) == STRICT_DICTIONARY_PENALTY_FACTOR
penaltyFactor(checks) ==
    IF ~checks.hasSymbols /\ ~checks.hasNumbers
    THEN STRICT_DICTIONARY_PENALTY_FACTOR
    ELSE DEFAULT_DICTIONARY_PENALTY_FACTOR

\* The score of applySecurityPenalties after its dictionary block, before the
\* two length tests.
dictionaryScore(pw, baseScore, varietyCount, checks) ==
    LET wordCount == Len(Split(pw))
        isDictionaryBased == wordCount >= 2
        penalized == IF isDictionaryBased
                     THEN RoundDiv(baseScore * penaltyFactor(checks), 10)
                     ELSE baseScore
        varied == IF isDictionaryBased /\ varietyCount < 3
                  THEN penalized - DICTIONARY_VARIETY_PENALTY * Micro
                  ELSE penalized
    IN  IF isDictionaryBased /\ wordCount >= 2
        THEN varied + (wordCount - 1) * WORD_BONUS * Micro
        ELSE varied

\* The score of applySecurityPenalties before the final clamp.
\* The mutant leaves out the two length tests.
adjustedScore_NoLength(pw, baseScore, varietyCount, checks) ==
    dictionaryScore(pw, baseScore, varietyCount, checks)
adjustedScore(pw, baseScore, varietyCount, checks) ==
    LET worded == dictionaryScore(pw, baseScore, varietyCount, checks)
        short == IF Len(pw) < MINIMUM_LENGTH
                 THEN worded - SHORT_PASSWORD_PENALTY * Micro
                 ELSE worded
    IN  IF Len(pw) >= LONG_PASSWORD_LENGTH THEN short + LENGTH_BONUS * Micro ELSE short

penaltyFeedback(pw, varietyCount) ==
    (IF Len(Split(pw)) >= 2 /\ varietyCount < 3
     THEN <<"Add more words or increase character density to strengthen your password">>
     ELSE <<>>)
    \o (IF Len(pw) < MINIMUM_LENGTH
        THEN <<"Use at least 8 characters for better security">>
        ELSE <<>>)

\* Math.max(0, Math.min(100, score))
ClampScore_None(score) == score
ClampScore(score) == Max(0, Min(100 * Micro, score))

applySecurityPenalties(pw, baseScore, varietyCount, checks) ==
    [finalScore |-> ClampScore(adjustedScore(pw, baseScore, varietyCount, checks)),
     feedback   |-> penaltyFeedback(pw, varietyCount)]

determineStrengthLevel_Strict(score) ==
    IF score > SCORE_RANGES.STRONG_MAX * Micro THEN "excellent"
    ELSE IF score > SCORE_RANGES.GOOD_MAX * Micro THEN "strong"
    ELSE IF score > SCORE_RANGES.FAIR_MAX * Micro THEN "good"
    ELSE IF score > SCORE_RANGES.WEAK_MAX * Micro THEN "fair"
    ELSE "weak"
determineStrengthLevel(score) ==
    IF score >= SCORE_RANGES.STRONG_MAX * Micro THEN "excellent"
    ELSE IF score >= SCORE_RANGES.GOOD_MAX * Micro THEN "strong"
    ELSE IF score >= SCORE_RANGES.FAIR_MAX * Micro THEN "good"
    ELSE IF score >= SCORE_RANGES.WEAK_MAX * Micro THEN "fair"
    ELSE "weak"

\* Number(score.toFixed(2)), in hundredths.
toFixed2(score) == RoundDiv(score, Micro \div 100)

\* filter((message, index, self) => self.indexOf(message) === index)
Unique(messages) ==
    LET First(i) == \A j \in 1..(i - 1) : messages[j] # messages[i]
        RECURSIVE Keep(_)
        Keep(i) == IF i > Len(messages) THEN <<>>
                   ELSE (IF First(i) THEN <<messages[i]>> ELSE <<>>) \o Keep(i + 1)
    IN  Keep(1)

\* The unrounded final score of a non-empty password.
finalScoreOf(pw) ==
    LET variety == analyzeCharacterVariety(pw)
    IN  applySecurityPenalties(pw, mapEntropyToScore(calculateEntropy(pw)),
                               variety.varietyCount, variety.checks).finalScore

\* typeof password !== "string"
InvalidInput_Never(type) == FALSE
InvalidInput(type) == type # "string"

\* password.length === 0
EmptyInput_Never(pw) == FALSE
EmptyInput(pw) == Len(pw) = 0

getPasswordComplexity(pw) ==
    IF EmptyInput(pw)
    THEN [score |-> 0, level |-> "weak", feedback |-> <<"Password cannot be empty">>]
    ELSE LET variety == analyzeCharacterVariety(pw)
             isDictionaryBased == Len(Split(pw)) >= 2
             varietyFeedback == generateVarietyFeedback(variety.varietyCount,
                                                        variety.checks, isDictionaryBased)
             penalties == applySecurityPenalties(pw,
                              mapEntropyToScore(calculateEntropy(pw)),
                              variety.varietyCount, variety.checks)
         IN  [score    |-> toFixed2(penalties.finalScore),
              level    |-> determineStrengthLevel(penalties.finalScore),
              feedback |-> Unique(varietyFeedback \o penalties.feedback)]

\* ---------------------------------------------------------------------
\* The scorer on its own.  The report depends on a password only through
\* the classes of its characters, the number of its characters that are
\* not hyphens and the number of its hyphens, so the inputs are one
\* password for each such combination.  The base score is 100 from 78
\* characters on and the score is 100 from 26 hyphens on.
\* ---------------------------------------------------------------------
MaxScoreLength == 78
MaxHyphens == 26

ClassSamples == <<"a", "B", "1", "!">>

\* The input with these character classes, this many characters that are
\* not hyphens and this many hyphens: characters and hyphens alternate
\* until one kind runs out.
ScoreInput(classes, length, hyphens) ==
    LET chars == SelectSeq(ClassSamples, LAMBDA c : c \in classes)
        n == IF classes = {} THEN 0 ELSE length
        paired == Min(n, hyphens)
        Char(k) == chars[((k - 1) % Len(chars)) + 1]
    IN  [i \in 1..(n + hyphens) |->
            IF i <= 2 * paired
              THEN (IF i % 2 = 1 THEN Char((i + 1) \div 2) ELSE "-")
              ELSE IF n > hyphens THEN Char(i - paired) ELSE "-"]

\* What typeof can say of an argument.
InputTypes == {"string", "number", "object", "undefined"}

\* The steps of getPasswordComplexity after its two guards.
ScoreSteps ==
    <<"calculateEntropy", "mapEntropyToScore", "analyzeCharacterVariety",
      "generateVarietyFeedback", "applySecurityPenalties", "determineStrengthLevel">>

\* getPasswordComplexity(password), for an argument of this type.  Past the
\* first guard an argument that is no string has no split method (and
\* undefined and null have no length): the call throws a TypeError.
\* The mutant keeps the feedback of the call before in a module variable.
getPasswordComplexityCall_Remembering(type, pw) ==
    /\ scPc' = "done"
    /\ scSteps' = ScoreSteps
    /\ scReport' = [getPasswordComplexity(pw) EXCEPT
                       !.feedback = scReport.feedback \o @]

getPasswordComplexityCall(type, pw) ==
    IF InvalidInput(type)
    THEN /\ scPc' = "done"
         /\ scSteps' = <<>>
         /\ scReport' = [score |-> 0, level |-> "weak",
                         feedback |-> <<"Invalid input: password must be a string">>]
    ELSE IF type # "string"
    THEN /\ scPc' = "threw"
         /\ scSteps' = <<>>
         /\ UNCHANGED scReport
    ELSE /\ scPc' = "done"
         /\ scSteps' = IF EmptyInput(pw) THEN <<>> ELSE ScoreSteps
         /\ scReport' = getPasswordComplexity(pw)

\* One call of getPasswordComplexity with a string.
Score ==
    /\ scPc = "input"
    /\ \E classes \in SUBSET Range(ClassSamples),
          length \in 0..MaxScoreLength,
          hyphens \in 0..MaxHyphens :
        /\ scType' = "string"
        /\ scPassword' = ScoreInput(classes, length, hyphens)
        /\ getPasswordComplexityCall("string", scPassword')
    /\ UNCHANGED <<meEntropy, meScore, rngVars, hookVars, pageVars>>

\* One call of getPasswordComplexity with something else.
ScoreOther ==
    /\ scPc = "input"
    /\ \E type \in InputTypes \ {"string"} :
        /\ scType' = type
        /\ scPassword' = <<>>
        /\ getPasswordComplexityCall(type, <<>>)
    /\ UNCHANGED <<meEntropy, meScore, rngVars, hookVars, pageVars>>

\* The password of the module's documented example and the three-word
\* password of lowercase letters.
DocumentedExample ==
    <<"H", "=", "e", "l", "6", "i", "c", "o", "p", "t", "e", "r", "-",
      "F", "r", "e", "e", "d", "o", "m">>
ThreeWordExample ==
    <<"r", "i", "v", "e", "r", "-", "f", "o", "r", "e", "s", "t", "-",
      "s", "t", "o", "n", "e">>

\* One call of getPasswordComplexity with one of these two passwords.
ScoreExample ==
    /\ scPc = "input"
    /\ \E pw \in {DocumentedExample, ThreeWordExample} :
        /\ scType' = "string"
        /\ scPassword' = pw
        /\ getPasswordComplexityCall("string", pw)
    /\ UNCHANGED <<meEntropy, meScore, rngVars, hookVars, pageVars>>

ScoreNext == Score \/ ScoreOther \/ ScoreExample
InitScore == RngInit /\ HookInit /\ ScIdle /\ HistoryInit
SpecScore == InitScore /\ [][ScoreNext]_vars

\* ---------------------------------------------------------------------
\* Properties of getPasswordComplexity
\* ---------------------------------------------------------------------

\* C9: for every input string the score of the report lies in [0, 100],
\* whatever penalties and bonuses were applied.
C9_ScoreWithinRange ==
    scPc = "done" => scReport.score >= 0 /\ scReport.score <= 100 * 100

\* The bonuses carried the unclamped score above 100 and the report says 100.
C9_Witness ==
    /\ scPc = "done"
    /\ Len(scPassword) > 0
    /\ LET variety == analyzeCharacterVariety(scPassword)
       IN  adjustedScore(scPassword, mapEntropyToScore(calculateEntropy(scPassword)),
                         variety.varietyCount, variety.checks) > 100 * Micro
    /\ scReport.score = 100 * 100

\* The band of the table weak [0,20), fair [20,40), good [40,60),
\* strong [60,80), excellent [80,100] for a score in hundredths.
BandOf(score) ==
    IF score < 20 * 100 THEN "weak"
    ELSE IF score < 40 * 100 THEN "fair"
    ELSE IF score < 60 * 100 THEN "good"
    ELSE IF score < 80 * 100 THEN "strong"
    ELSE "excellent"

\* C10: for every non-empty password the level of the report is the band
\* of the table that contains the score of the same report, as returned
\* after rounding to two decimals.
C10_LevelIsBandOfReturnedScore ==
    (scPc = "done" /\ Len(scPassword) > 0) => scReport.level = BandOf(scReport.score)

\* A score that toFixed(2) rounded up, reported with the level of its band.
C10_Witness ==
    /\ scPc = "done"
    /\ Len(scPassword) > 0
    /\ finalScoreOf(scPassword) % (Micro \div 100) >= (Micro \div 200)
    /\ scReport.score * (Micro \div 100) > finalScoreOf(scPassword)
    /\ scReport.level = "strong"
    /\ BandOf(scReport.score) = "strong"


\* C11: getPasswordComplexity never throws; for an argument that is no
\* string and for the empty string it returns score 0, level "weak" and a
\* feedback list that is not empty, and runs none of the entropy, variety
\* and penalty steps.
C11_InvalidOrEmptyInputIsWeak ==
    /\ scPc # "threw"
    /\ (scPc = "done" /\ (scType # "string" \/ scPassword = <<>>)) =>
          /\ scReport.score = 0
          /\ scReport.level = "weak"
          /\ scReport.feedback # <<>>
          /\ scSteps = <<>>

\* The scorer was given undefined.
C11_Witness ==
    /\ scPc = "done"
    /\ scType = "undefined"
    /\ scReport.score = 0
    /\ scReport.level = "weak"
    /\ scReport.feedback = <<"Invalid input: password must be a string">>
    /\ scSteps = <<>>


---------------------------------------------------------------------------
(* The hook rendered with options outside the documented domain.           *)

\* One word; a negative density; a density below the slider's minimum; a
\* minimum word length above the maximum.  Everything else as in
\* HookOptions, fully decorated.
OutOfDomainOptions ==
    LET base == [wordCount |-> 2, includeCapitals |-> TRUE, includeNumbers |-> TRUE,
                 includeSpecials |-> TRUE, wordCategory |-> "technology",
                 minWordLength |-> 3, maxWordLength |-> 3,
                 characterDensity |-> 100, avoidSimilarWords |-> FALSE]
    IN  {[base EXCEPT !.wordCount = 1],
         [base EXCEPT !.characterDensity = 0 - 50],
         [base EXCEPT !.characterDensity = 10],
         [base EXCEPT !.minWordLength = 4]}

InitOutOfDomain == HookRendered(OutOfDomainOptions)
SpecOutOfDomain == InitOutOfDomain /\ [][HookNext]_vars

\* The documented domain of the options: wordCount in [2, 6],
\* characterDensity in [0.2, 1.0], minWordLength <= maxWordLength.
InDomain(o) ==
    /\ o.wordCount >= 2 /\ o.wordCount <= 6
    /\ o.characterDensity >= 20 /\ o.characterDensity <= 100
    /\ o.minWordLength <= o.maxWordLength

\* C12: generatePassword rejects options outside the domain with an
\* InvalidOptions failure, before word selection runs and before any draw
\* from the random source.
C12_OutOfDomainOptionsRejected ==
    (caller = "generate" /\ pc # "idle" /\ ~InDomain(options)) =>
        /\ error.kind = "InvalidOptions"
        /\ ~selected
        /\ ~drew


---------------------------------------------------------------------------
(* The page: usePasswordGenerator together with usePasswordHistory.        *)

HISTORY_LIMIT == 50

\* The entry addToHistory stores: the password and five of the options. The
\* entry's timestamp (Date.now()) plays no part in what follows and is left
\* out.
HistoryEntry(pw, o) ==
    [password |-> pw,
     options  |-> [wordCount       |-> o.wordCount,
                   includeCapitals |-> o.includeCapitals,
                   includeNumbers  |-> o.includeNumbers,
                   includeSpecials |-> o.includeSpecials,
                   wordCategory    |-> o.wordCategory]]

\* The new entry put last instead of first.
addToHistory_Last(prev, pw, o) ==
    LET all == prev \o <<HistoryEntry(pw, o)>>
    IN  SubSeq(all, 1, IF Len(all) < HISTORY_LIMIT THEN Len(all) ELSE HISTORY_LIMIT)

\* setHistory((prev) => [entry, ...prev].slice(0, 50))
addToHistory(prev, pw, o) ==
    LET all == <<HistoryEntry(pw, o)>> \o prev
    IN  SubSeq(all, 1, IF Len(all) < HISTORY_LIMIT THEN Len(all) ELSE HISTORY_LIMIT)

\* if (newPassword) { addToHistory(newPassword, options) }
handleGenerateHistory_Always(prev, newPassword, o) == addToHistory(prev, newPassword, o)

handleGenerateHistory(prev, newPassword, o) ==
    IF newPassword # <<>> THEN addToHistory(prev, newPassword, o) ELSE prev

\* The number of entries after which the model stops clicking Generate.
MaxHistory == 2

\* handleGenerate: const newPassword = generatePassword()
HandleGenerate ==
    /\ Len(history) < MaxHistory
    /\ GenerateCall

\* generatePassword returned a password to handleGenerate.
HandleGenerateReturn ==
    /\ generatePasswordReturns
    /\ history' = handleGenerateHistory(history, retval', options)

\* generatePassword caught the error and returned "" to handleGenerate.
HandleGenerateCatch ==
    /\ generatePasswordCatches
    /\ history' = handleGenerateHistory(history, retval', options)

\* The options the page's controls are set to: two words of three letters,
\* from a category that has them or from one that does not, with or without
\* numbers.
PageOptions ==
    {o \in PasswordOptions :
        /\ o.wordCount = 2 /\ o.minWordLength = 3 /\ o.maxWordLength = 3
        /\ o.wordCategory \in {"technology", "common"}
        /\ ~o.avoidSimilarWords /\ o.characterDensity = 100
        /\ ~o.includeCapitals /\ ~o.includeSpecials}

\* handleOptionsChange: setOptions(updatedOptions);
\* if (password) updatePasswordWithOptions(updatedOptions)
HandleOptionsChange ==
    /\ pc = "idle"
    /\ \E updatedOptions \in PageOptions :
         /\ options' = updatedOptions
         /\ updatePasswordWithOptionsBegin(updatedOptions)
    /\ UNCHANGED <<password, rngVars, scVars, pageVars>>

\* clearHistory: setHistory([])
ClearHistory ==
    /\ pc = "idle"
    /\ history # <<>>
    /\ history' = <<>>
    /\ UNCHANGED <<rngVars, hookVars, scVars>>

InitPage == HookRendered(PageOptions)

PageNext ==
    \/ HandleGenerate \/ SelectStep \/ FallbackStep \/ GenerateProcess
    \/ HandleGenerateCatch \/ HandleGenerateReturn
    \/ HandleOptionsChange \/ UpdateReturn \/ ClearHistory
    \/ PickIndex \/ ApplyIndex \/ PassEnd

\* The page, with its Generate button and option controls used in any order.
SpecPage == InitPage /\ [][PageNext]_vars

\* C13: a generatePassword call whose word selection fails leaves the stored
\* password and the history as they were, from the throwing step through the
\* catch, and returns the empty string to handleGenerate.
C13_FailedGenerationLeavesNoTrace ==
    [][(\/ caller' = "generate" /\ pc' = "threw"
        \/ caller = "generate" /\ pc = "threw") =>
          /\ password' = password
          /\ history' = history
          /\ (pc = "threw" => retval' = <<>>)]_vars

\* A failed generation has just returned "" while a password is stored and
\* the history holds its entry.
C13_Witness ==
    /\ pc = "idle"
    /\ caller = "generate"
    /\ error.kind # "none"
    /\ retval = <<>>
    /\ password # <<>>
    /\ Len(history) = 1
    /\ history[1].password = password


\* The base score of a password: mapEntropyToScore(calculateEntropy(password)).
baseScoreOf(pw) == mapEntropyToScore(calculateEntropy(pw))

\* The number of hyphen-separated segments of a password, counted by its
\* hyphens.
Segments(pw) == Len(SelectSeq(pw, LAMBDA c : c = "-")) + 1

---------------------------------------------------------------------------
(* mapEntropyToScore on its own.                                           *)

\* The arguments tried: every multiple of 1 / EntropyGrid bit from two bits
\* below zero to MaxEntropyBits, which is past the last threshold.
EntropyGrid == 4
MaxEntropyBits == 260

EntropySamples ==
    {k * (Micro \div EntropyGrid) :
        k \in (0 - 2 * EntropyGrid) .. (MaxEntropyBits * EntropyGrid)}

\* One call mapEntropyToScore(entropy).
MapEntropy ==
    /\ \E entropy \in EntropySamples :
         /\ meEntropy' = entropy
         /\ meScore' = mapEntropyToScore(entropy)
    /\ UNCHANGED <<scPc, scType, scPassword, scSteps, scReport>>
    /\ UNCHANGED <<rngVars, hookVars, pageVars>>

InitEntropy == RngInit /\ HookInit /\ ScIdle /\ HistoryInit
SpecEntropy == InitEntropy /\ [][MapEntropy]_vars

\* The points (entropy, score) of the claim.
Breakpoints ==
    << <<0, 0>>, <<28, 20>>, <<40, 40>>, <<60, 60>>, <<128, 80>>, <<256, 100>> >>

RECURSIVE GCD(_, _)
GCD(a, b) == IF b = 0 THEN a ELSE GCD(b, a % b)

\* The score s is the millionth nearest to the line through the points p and
\* q at the entropy e.
OnLine(e, s, p, q) ==
    LET g == GCD(q[1] - p[1], q[2] - p[2])
        dx == (q[1] - p[1]) \div g
        dy == (q[2] - p[2]) \div g
        off == (s - p[2] * Micro) * dx - (e - p[1] * Micro) * dy
    IN  2 * off <= dx /\ 2 * off >= 0 - dx

\* The score s is the piecewise-linear interpolation through Breakpoints at
\* the entropy e: 0 up to the first point, 100 from the last point on.
Interpolated(e, s) ==
    IF e <= 0 THEN s = 0
    ELSE IF e >= Breakpoints[Len(Breakpoints)][1] * Micro
    THEN s = Breakpoints[Len(Breakpoints)][2] * Micro
    ELSE /\ \A k \in 1 .. Len(Breakpoints) - 1 :
              (e >= Breakpoints[k][1] * Micro /\ e < Breakpoints[k + 1][1] * Micro)
                  => OnLine(e, s, Breakpoints[k], Breakpoints[k + 1])
         /\ \A k \in DOMAIN Breakpoints :
              e = Breakpoints[k][1] * Micro => s = Breakpoints[k][2] * Micro

\* C17: mapEntropyToScore is the piecewise-linear interpolation through
\* (0,0), (28,20), (40,40), (60,60), (128,80), (256,100): 0 for entropy <= 0,
\* the breakpoint score at each threshold, 100 for entropy >= 256, and a
\* larger entropy never gets a smaller score.
C17_PiecewiseLinearMonotone ==
    [][/\ Interpolated(meEntropy', meScore')
       /\ (meEntropy' >= meEntropy => meScore' >= meScore)
       /\ (meEntropy' <= meEntropy => meScore' <= meScore)]_vars

\* mapEntropyToScore was called inside the segment from (60,60) to (128,80)
\* and returned a score strictly between the two breakpoint scores.
C17_Witness ==
    /\ meEntropy = 94 * Micro
    /\ meScore = 70 * Micro


\* C18: the feedback of a scored password holds an advisory for every
\* penalty and every bonus applied in the dictionary and length steps: the
\* dictionary variety penalty, the short-length penalty, the multiple-word
\* bonus and the long-length bonus, the last two with the messages of the
\* documented example.
C18_FeedbackNamesEveryAdjustment ==
    (scPc = "done" /\ scType = "string" /\ scPassword # <<>>) =>
        LET pw == scPassword
            w == Segments(pw)
            feedback == Range(scReport.feedback)
        IN  /\ (w >= 2 /\ analyzeCharacterVariety(pw).varietyCount < 3) =>
                  "Add more words or increase character density to strengthen your password"
                      \in feedback
            /\ Len(pw) < MINIMUM_LENGTH =>
                  "Use at least 8 characters for better security" \in feedback
            /\ w >= 2 => "Multiple words add complexity" \in feedback
            /\ Len(pw) >= LONG_PASSWORD_LENGTH =>
                  "Long password length adds strength" \in feedback


\* C19: getPasswordComplexity("H=el6icopter-Freedom") returns the level
\* "strong" and a score in [60, 100).
C19_DocumentedExampleIsStrong ==
    (scPc = "done" /\ scPassword = DocumentedExample) =>
        /\ scReport.level = "strong"
        /\ scReport.score >= 60 * 100
        /\ scReport.score < 100 * 100

\* The documented example was scored: 70.29, with no feedback.
C19_Witness ==
    /\ scPc = "done"
    /\ scPassword = DocumentedExample
    /\ scReport = [score |-> 7029, level |-> "strong", feedback |-> <<>>]

\* C20 as stated: for "river-forest-stone" the base score lies in the "good"
\* band [40, 60) and the level returned is "weak" or "fair".
C20_ThreeWordsBaseGoodFinalLow ==
    (scPc = "done" /\ scPassword = ThreeWordExample) =>
        /\ baseScoreOf(scPassword) >= 40 * Micro
        /\ baseScoreOf(scPassword) < 60 * Micro
        /\ scReport.level \in {"weak", "fair"}

\* C20, amended: for "river-forest-stone" the base score lies in the
\* "strong" band [60, 80), and after the 0.3 factor, the variety penalty and
\* the word bonus the level returned is "weak" or "fair".
C20_ThreeWordsBaseStrongFinalLow ==
    (scPc = "done" /\ scPassword = ThreeWordExample) =>
        /\ baseScoreOf(scPassword) >= 60 * Micro
        /\ baseScoreOf(scPassword) < 80 * Micro
        /\ dictionaryScore(scPassword, baseScoreOf(scPassword), 1,
                           analyzeCharacterVariety(scPassword).checks)
             = RoundDiv(baseScoreOf(scPassword) * 3, 10) - 5 * Micro + 2 * 5 * Micro
        /\ scReport.level \in {"weak", "fair"}

\* "river-forest-stone" was scored: 24.34, "fair".
C20_Witness ==
    /\ scPc = "done"
    /\ scPassword = ThreeWordExample
    /\ scReport.score = 2434
    /\ scReport.level = "fair"


---------------------------------------------------------------------------
(* The page with its strength meter: the hooks and the scorer together.    *)

\* passwordAnalysis = useMemo(() => password ? getPasswordComplexity(password)
\* : null, [password]): the displayed password is scored.
Analyze ==
    /\ pc = "idle"
    /\ password # <<>>
    /\ scType' = "string"
    /\ scPassword' = password
    /\ getPasswordComplexityCall("string", password)
    /\ UNCHANGED <<meEntropy, meScore, rngVars, hookVars, pageVars>>

\* A further call of getPasswordComplexity, with one of the two examples.
Rescore ==
    /\ scPc = "done"
    /\ \E pw \in {DocumentedExample, ThreeWordExample} :
        /\ scType' = "string"
        /\ scPassword' = pw
        /\ getPasswordComplexityCall("string", pw)
    /\ UNCHANGED <<meEntropy, meScore, rngVars, hookVars, pageVars>>

InitMeter == HookRendered(PageOptions)

MeterNext ==
    \/ HandleGenerate \/ SelectStep \/ FallbackStep \/ GenerateProcess
    \/ HandleGenerateCatch \/ HandleGenerateReturn
    \/ HandleOptionsChange \/ UpdateReturn \/ ClearHistory
    \/ PickIndex \/ ApplyIndex \/ PassEnd
    \/ ScoreExample \/ Rescore \/ Analyze

\* Generation, re-derivation, history updates and scorings in any order.
SpecMeter == InitMeter /\ [][MeterNext]_vars

---------------------------------------------------------------------------
(* calculateEntropy inside getPasswordComplexity, for long passwords too.   *)

\* The longest cleaned password tried and the most hyphens added to it.
MaxCleanLength == 157
MaxEntropyHyphens == 2

\* One call of getPasswordComplexity with a string of up to MaxCleanLength
\* characters and a few hyphens; its locals entropy and baseScore are kept.
\* const entropy = calculateEntropy(password);
\* const baseScore = mapEntropyToScore(entropy)
ScoreLong ==
    /\ scPc = "input"
    /\ \E classes \in SUBSET Range(ClassSamples),
          length \in 0 .. MaxCleanLength,
          hyphens \in 0 .. MaxEntropyHyphens :
        /\ scType' = "string"
        /\ scPassword' = ScoreInput(classes, length, hyphens)
        /\ meEntropy' = calculateEntropy(scPassword')
        /\ meScore' = mapEntropyToScore(meEntropy')
        /\ getPasswordComplexityCall("string", scPassword')
    /\ UNCHANGED <<rngVars, hookVars, pageVars>>

InitCalculate == RngInit /\ HookInit /\ ScIdle /\ HistoryInit
SpecCalculate == InitCalculate /\ [][ScoreLong]_vars

\* The sum of the class sizes present in a string: 26, 26, 10, and 32 for
\* any other character.
ClassSizes(s) ==
    (IF \E i \in DOMAIN s : s[i] \in AsciiLower THEN 26 ELSE 0)
    + (IF \E i \in DOMAIN s : s[i] \in AsciiUpper THEN 26 ELSE 0)
    + (IF \E i \in DOMAIN s : s[i] \in AsciiDigits THEN 10 ELSE 0)
    + (IF \E i \in DOMAIN s : s[i] \notin AsciiLower \cup AsciiUpper \cup AsciiDigits
       THEN 32 ELSE 0)

\* length * log2(size), in millionths of a bit.
BitsOf(length, size) ==
    IF size = 0 THEN 0
    ELSE length * Log2Parts(size)[1] + RoundDiv(length * Log2Parts(size)[2], Micro)

\* C22: the entropy of a password is that of the password without its
\* hyphens, and equals cleanedLength * log2(S), S the sum of the class sizes
\* present in the cleaned string; it is 0 when the cleaned string is empty.
C22_EntropyIgnoresHyphens ==
    scPc = "done" =>
    LET cleaned == SelectSeq(scPassword, LAMBDA c : c # "-")
    IN  /\ meEntropy = calculateEntropy(cleaned)
        /\ meEntropy = BitsOf(Len(cleaned), ClassSizes(cleaned))
        /\ cleaned = <<>> => meEntropy = 0


\* C23: the score before the clamp is the score after the dictionary block
\* minus 20 iff the password, hyphens included, is shorter than 8, plus 10 iff
\* it is at least 20 long, whether or not it has a hyphen; the report carries
\* that score clamped to [0, 100].
C23_LengthAdjustment ==
    (scPc = "done" /\ scPassword # <<>>) =>
        LET pw == scPassword
            variety == analyzeCharacterVariety(pw)
            dictionary == dictionaryScore(pw, baseScoreOf(pw), variety.varietyCount,
                                          variety.checks)
            expected == dictionary - (IF Len(pw) < 8 THEN 20 * Micro ELSE 0)
                                   + (IF Len(pw) >= 20 THEN 10 * Micro ELSE 0)
        IN  /\ adjustedScore(pw, baseScoreOf(pw), variety.varietyCount, variety.checks)
                 = expected
            /\ scReport.score = toFixed2(Max(0, Min(100 * Micro, expected)))

\* A single word of 20 characters got the length bonus without reaching 100.
C23_Witness ==
    /\ scPc = "done"
    /\ Len(scPassword) = 20
    /\ Segments(scPassword) = 1
    /\ scReport.score = toFixed2(baseScoreOf(scPassword) + 10 * Micro)
    /\ scReport.score < 100 * 100


\* The string s without its i-th character.
DeleteAt(s, i) == SubSeq(s, 1, i - 1) \o SubSeq(s, i + 1, Len(s))

\* C24: for the word of length >= 3 that insertRandomChar is about to be
\* called on, every word it can return is one character longer, has a
\* character of the alphabet at a place that is neither the first nor the
\* last, and gives back the original word when that character is deleted;
\* and every interior place, from behind the first character to before the
\* last, is the place of the insertion in some word it can return.
C24_InsertsAtEveryInteriorPosition ==
    (pc = "apply" /\ Len(processed[indices[applied + 1] + 1]) >= 3) =>
        LET word == processed[indices[applied + 1] + 1]
            chars == CharsOf(chan)
            results == insertRandomChar(word, chars)
        IN  /\ \A r \in results :
                 /\ Len(r) = Len(word) + 1
                 /\ \E i \in 2 .. Len(r) - 1 :
                      r[i] \in Range(chars) /\ DeleteAt(r, i) = word
            /\ \A i \in 2 .. Len(word) :
                 \E r \in results : r[i] \in Range(chars) /\ DeleteAt(r, i) = word


\* The number of characters of the string s that are in the string chars.
CountIn(s, chars) == Len(SelectSeq(s, LAMBDA c : Includes(chars, c)))

\* C25: when generatePassword or updatePasswordWithOptions returns, every
\* segment of the password it stores holds at most one digit and at most one
\* special character, and the password holds no digit if the options of the
\* call have includeNumbers false and no special character if they have
\* includeSpecials false, whatever calls came before.
C25_DecorationsDoNotAccumulate ==
    [][(pc = "join" /\ pc' = "idle") =>
          LET segs == Split(password')
          IN  /\ \A i \in DOMAIN segs :
                   /\ CountIn(segs[i], NUMBER_CHARS) <= 1
                   /\ CountIn(segs[i], SPECIAL_CHARS) <= 1
              /\ ~opts.includeNumbers => CountIn(password', NUMBER_CHARS) = 0
              /\ ~opts.includeSpecials => CountIn(password', SPECIAL_CHARS) = 0]_vars

\* After an update with both channels at density 0.5, one segment holds the
\* digit and the symbol and the other holds neither.
C25_Witness ==
    /\ pc = "idle"
    /\ caller = "update"
    /\ Len(Split(password)) = 2
    /\ \E i, j \in DOMAIN Split(password) :
         /\ CountIn(Split(password)[i], NUMBER_CHARS) = 1
         /\ CountIn(Split(password)[i], SPECIAL_CHARS) = 1
         /\ CountIn(Split(password)[j], NUMBER_CHARS) = 0
         /\ CountIn(Split(password)[j], SPECIAL_CHARS) = 0


---------------------------------------------------------------------------
(* The hook under a fair random source.                                    *)

\* getSecureRandom returns every value of its range again and again: a loop
\* that waits for a value it has not seen yet gets one.
FairDraws == WF_vars(PickIndex) /\ WF_vars(SelectStep) /\ WF_vars(FallbackStep)

\* The options of the update calls made here: numbers only, at density 0.5
\* or 1.
FairUpdateOptions ==
    {o \in UpdateOptions :
        ~o.includeCapitals /\ o.includeNumbers /\ ~o.includeSpecials}

\* updatePasswordWithOptions(newOptions) with one of these options.
FairUpdateCall ==
    /\ pc = "idle"
    /\ \E newOptions \in FairUpdateOptions : updatePasswordWithOptionsBegin(newOptions)
    /\ UNCHANGED <<options, password, rngVars, scVars, pageVars>>

InitFair == HookRendered(PageOptions)

FairNext ==
    \/ GenerateCall \/ SelectStep \/ FallbackStep \/ GenerateProcess
    \/ GenerateCatch \/ GenerateReturn
    \/ FairUpdateCall \/ UpdateReturn
    \/ PickIndex \/ ApplyIndex \/ PassEnd

SpecFair == InitFair /\ [][FairNext]_vars /\ FairDraws

\* C26: while the loop of modifyRandomWords runs, fewer indices are drawn
\* than there are words, so an index not drawn yet exists; and under a fair
\* random source the loop is left with max(1, floor(n * density)) indices
\* drawn, in a generatePassword call and in an updatePasswordWithOptions
\* call alike.
C26_IndexLoopTerminates ==
    /\ [](pc = "pick" => Len(indices) < Len(processed))
    /\ \A c \in {"generate", "update"} :
         (pc = "pick" /\ caller = c) ~>
             (/\ pc = "apply"
              /\ caller = c
              /\ LET floor == (Len(processed) * opts.characterDensity) \div 100
                 IN  Len(indices) = IF floor >= 1 THEN floor ELSE 1)

\* The loop of an update call over two words at density 0.5 has drawn its
\* one index.
C26_Witness ==
    /\ pc = "apply"
    /\ caller = "update"
    /\ opts.characterDensity = 50
    /\ Len(processed) = 2
    /\ Len(indices) = 1


\* getRandomWords on its own under a fair random source.
InitSelectFair == RngInit /\ HookInit /\ ScIdle /\ HistoryInit
SpecSelectFair == InitSelectFair /\ [][SelectNext]_vars /\ FairDraws

\* C27: a call of getRandomWords that passed its two length tests makes at
\* most 2 * poolSize draws in its similarity-checked loop and, under a fair
\* random source, returns with count words.
C27_SelectionTerminates ==
    /\ [](pc = "select" => attempts < 2 * Len(availableWords))
    /\ (pc \in {"select", "fallback"}) ~>
           (pc = "selected" /\ Len(words) = opts.wordCount)


---------------------------------------------------------------------------
(* The page flow: Generate, the option controls and the word-count slider. *)

\* The options the controls of the flow can show: two or three words from
\* "common" with numbers, of three to four letters (25 entries pass the
\* filter) or of three letters only (20 entries do).
FlowOptions ==
    {o \in PasswordOptions :
        /\ o.minWordLength = 3
        /\ o.wordCategory = "common"
        /\ ~o.avoidSimilarWords /\ o.characterDensity = 100
        /\ ~o.includeCapitals /\ o.includeNumbers /\ ~o.includeSpecials}

\* A control other than the word-count slider:
\* handleOptionsChange({ field: value }) with updatedOptions =
\* { ...options, ...newOptions }, which keeps options.wordCount.
FlowOptionsChange ==
    /\ pc = "idle"
    /\ \E updatedOptions \in FlowOptions :
         /\ updatedOptions.wordCount = options.wordCount
         /\ options' = updatedOptions
         /\ updatePasswordWithOptionsBegin(updatedOptions)
    /\ UNCHANGED <<password, rngVars, scVars, pageVars>>

\* The word-count slider: setOptions((prev) => ({ ...prev, wordCount:
\* value[0] })); the render that follows runs the effect on
\* [options.wordCount], which calls handleGenerate with the new options.
WordCountChange ==
    /\ pc = "idle"
    /\ history = <<>>
    /\ \E value \in (2 .. MaxWordCount) \ {options.wordCount} :
         LET updated == [options EXCEPT !.wordCount = value]
         IN  /\ options' = updated
             /\ isGenerating' = TRUE
             /\ getRandomWordsBegin(value, updated, "generate")
             /\ retval' = <<>>
    /\ UNCHANGED <<password, rngVars, scVars, pageVars>>

\* The Generate button, which the flow uses while the history is empty.
FlowGenerate ==
    /\ history = <<>>
    /\ GenerateCall

InitFlow == HookRendered(FlowOptions)

FlowNext ==
    \/ FlowGenerate \/ WordCountChange \/ SelectStep \/ FallbackStep
    \/ GenerateProcess \/ HandleGenerateCatch \/ HandleGenerateReturn
    \/ FlowOptionsChange \/ UpdateReturn \/ ClearHistory
    \/ PickIndex \/ ApplyIndex \/ PassEnd

\* The page with all of its controls used in any order.
SpecFlow == InitFlow /\ [][FlowNext]_vars

\* C28: whenever no handler or effect of the page is running and the
\* displayed password is not empty, the password has options.wordCount
\* segments between its hyphens.
C28_SegmentsFollowWordCount ==
    (pc = "idle" /\ password # <<>>) => Len(Split(password)) = options.wordCount


---------------------------------------------------------------------------
(* usePasswordHistory on its own.                                          *)

\* The passwords handed to addToHistory: a plain one, and a marked one that
\* shows where an entry is in the list.
PlainPassword == <<"c", "a", "t", "-", "d", "o", "g">>
MarkedPassword == <<"b", "o", "t", "-", "c", "o", "d">>

\* The number of marked entries the model lets the history hold at a time.
MaxMarked == 1

MarkedIn(h) == Len(SelectSeq(h, LAMBDA e : e.password = MarkedPassword))

\* addToHistory(password, options)
AddToHistory ==
    /\ \E pw \in {PlainPassword, MarkedPassword} :
         /\ pw = MarkedPassword => MarkedIn(history) < MaxMarked
         /\ history' = addToHistory(history, pw, options)
    /\ UNCHANGED <<rngVars, hookVars, scVars>>

\* clearHistory()
ClearAll ==
    /\ history' = <<>>
    /\ UNCHANGED <<rngVars, hookVars, scVars>>

InitHistory == HookRendered(PageOptions)

HistoryNext == AddToHistory \/ ClearAll

SpecHistory == InitHistory /\ [][HistoryNext]_vars

\* C29: the history never holds more than 50 entries, and every call
\* either empties it (clearHistory) or puts one new entry at index 0 with
\* the earlier entries behind it in their order, all of them while that
\* makes at most 50 and else all but the oldest.
C29_HistoryIsCappedNewestFirst ==
    /\ [](Len(history) <= 50)
    /\ [][\/ history' = <<>>
          \/ /\ Len(history') = (IF Len(history) < 50 THEN Len(history) + 1 ELSE 50)
             /\ history'[1].password \in {PlainPassword, MarkedPassword}
             /\ \A i \in 2 .. Len(history') : history'[i] = history[i - 1]]_history

\* A full history whose oldest entry is the marked one, put in at index 0
\* forty-nine calls earlier.
C29_Witness ==
    /\ Len(history) = 50
    /\ history[50].password = MarkedPassword
    /\ \A i \in 1 .. 49 : history[i].password = PlainPassword


---------------------------------------------------------------------------
(* The isGenerating flag.                                                  *)

\* C30: the flag is true while a call of generatePassword or of
\* updatePasswordWithOptions is under way and false whenever none is,
\* whether the last call returned a password, caught an error or was an
\* update of an empty password; an update is never under way on an empty
\* stored password.
C30_FlagBracketsTheCall ==
    /\ pc = "idle" => ~isGenerating
    /\ pc # "idle" => (isGenerating /\ caller \in {"generate", "update"})
    /\ (pc # "idle" /\ caller = "update") => password # <<>>
    /\ (pc = "idle" /\ password = <<>>) => caller \in {"none", "generate"}

\* generatePassword has caught the error of getRandomWords and returned "".
C30_Witness ==
    /\ pc = "idle"
    /\ caller = "generate"
    /\ error.kind = "WordListTooSmall"
    /\ retval = <<>>
    /\ ~isGenerating

=============================================================================
